---- MODULE Spec2Model ----
(***************************************************************************)
(* Model of med_reminder.py: the MedReminder reminder cycle, its log file  *)
(* (~/med_log.json) and the confirmation dialog.                           *)
(*                                                                         *)
(* One process is one invocation of the script (lines 222-228).  The log   *)
(* file and the wall clock are shared by all invocations.                  *)
(***************************************************************************)
EXTENDS Integers, Sequences, FiniteSets, TLC

\* ------------------------------------------------------------------------
\* Bounds of the model
\* ------------------------------------------------------------------------
\* Number of calendar days the clock can show (the clock starts on day 1).
MaxDay == 2

\* ------------------------------------------------------------------------
\* Program constants
\* ------------------------------------------------------------------------
\* self.max_reminders = 10
max_reminders == 10

Procs == {"p1", "p2"}
Slots == {"morning", "afternoon"}
Days  == 1..MaxDay

\* self.medicines, per reminder_type
medicines(slot) ==
    IF slot = "morning"
    THEN <<"Elvanse 20mg", "Escitalopram 5mg", "Dexamfetamine 5mg">>
    ELSE <<"Dexamfetamine 5mg (afternoon dose)">>

\* the four candidate sound files of play_alarm_sound, in order of preference
sounds == 1..4

VARIABLES
    now,            \* the local calendar day shown by the wall clock
    log_file,       \* ~/med_log.json: [status, log]
    reminder_type,  \* per process: the slot given on the command line
    pc,             \* per process: position in run_reminder_cycle
    reminder_count, \* per process: self.reminder_count
    wait_time,      \* per process: wait_time of the current sleep (0: none yet)
    med_vars,       \* per process: indices of the checked boxes of the dialog
    completed,      \* per process: completed[0] of show_gui_reminder
    log,            \* per process: the dict built by save_log (local `log`)
    today_key,      \* per process: today_key of save_log (0: not in save_log)
    overwritten,    \* per process: what the file held when save_log emptied it
    taken,          \* per process: result of the last already_taken_today()
    notification,   \* per process: notification of the current round
    alarm,          \* per process: how the alarm of the current round sounded
    warned,         \* per process: the "Incomplete" warning box was shown
    rounds,         \* per process: alert rounds started in this cycle
    day_changed,    \* per process: the date changed since its latest round began
    rollover_round, \* per process: the round just begun is the first after that
    writes          \* per process: completed writes of the log file

vars == <<now, log_file, reminder_type, pc, reminder_count, wait_time,
          med_vars, completed, log, today_key, overwritten, taken,
          notification, alarm, warned, rounds, day_changed, rollover_round,
          writes>>

\* ------------------------------------------------------------------------
\* The log file
\* ------------------------------------------------------------------------
\* The empty JSON object {}.
EmptyLog == [d \in {} |-> [s \in {} |-> 0]]

\* File contents: absent, unparsable ("corrupt": garbage, "truncated": cut
\* short by an interrupted write) or "ok" holding a parsable mapping.
FileAbsent    == [status |-> "absent",    log |-> EmptyLog]
FileCorrupt   == [status |-> "corrupt",   log |-> EmptyLog]
FileTruncated == [status |-> "truncated", log |-> EmptyLog]
FileOk(l)     == [status |-> "ok",        log |-> l]

\* One log entry: { medicines, time_taken, reminder_count }.
Entry(meds, t, n) == [medicines |-> meds, time_taken |-> t, reminder_count |-> n]

\* get_today_key: the date part of the clock (%Y-%m-%d is one-to-one on dates)
get_today_key == now

\* load_log that also swallows the parse error
load_log_swallow(f) ==
    IF f.status = "ok" THEN [raised |-> FALSE, value |-> f.log]
    ELSE [raised |-> FALSE, value |-> EmptyLog]

\* load_log: json.load of the file; {} only for FileNotFoundError; a
\* JSONDecodeError is not caught and is raised to the caller.
load_log(f) ==
    IF f.status = "ok" THEN [raised |-> FALSE, value |-> f.log]
    ELSE IF f.status = "absent" THEN [raised |-> FALSE, value |-> EmptyLog]
    ELSE [raised |-> TRUE, value |-> EmptyLog]

\* save_log that starts the day's mapping afresh: the other slots of the
\* day are dropped
PutEntry_fresh_day(l, day, slot, e) ==
    [d \in (DOMAIN l) \cup {day} |-> IF d = day THEN [s \in {slot} |-> e] ELSE l[d]]

\* log[today_key][reminder_type] = entry, creating log[today_key] if missing
\* (save_log lines 46-53)
PutEntry(l, day, slot, e) ==
    LET old == IF day \in DOMAIN l THEN l[day] ELSE [s \in {} |-> e]
        new == [s \in (DOMAIN old) \cup {slot} |-> IF s = slot THEN e ELSE old[s]]
    IN  [d \in (DOMAIN l) \cup {day} |-> IF d = day THEN new ELSE l[d]]

\* already_taken_today without the comparison of the item counts
already_taken_today_any_entry(l, today, slot) ==
    /\ today \in DOMAIN l
    /\ slot \in DOMAIN l[today]

\* already_taken_today looking the slot up under the wrong day
already_taken_today_other_day(l, today, slot) ==
    /\ today + 1 \in DOMAIN l
    /\ slot \in DOMAIN l[today + 1]
    /\ Len(l[today + 1][slot].medicines) = Len(medicines(slot))

\* already_taken_today on a loaded log (lines 60-63)
already_taken_today(l, today, slot) ==
    /\ today \in DOMAIN l
    /\ slot \in DOMAIN l[today]
    /\ Len(l[today][slot].medicines) = Len(medicines(slot))

\* ------------------------------------------------------------------------
\* Alerts
\* ------------------------------------------------------------------------
NoNotification == [urgency |-> "none", via |-> "none"]

\* urgency that turns critical one attempt late
Urgency_late(count) == IF count <= 3 THEN "normal" ELSE "critical"

\* urgency passed to show_desktop_notification (lines 193-200)
Urgency(count) == IF count < 3 THEN "normal" ELSE "critical"

\* whether play_alarm_sound is called (lines 193-200)
PlaysSound(count) == count # 0

\* wait_time computed from the count as it was before the increment
WaitTime_before_increment(count) ==
    IF count - 1 < 3 THEN 300
    ELSE IF count - 1 < 6 THEN 180
    ELSE 60

\* wait_time computed after the increment (lines 210-215)
WaitTime(count) ==
    IF count < 3 THEN 300
    ELSE IF count < 6 THEN 180
    ELSE 60

\* loop condition that lets one round too many through
LoopCondition_inclusive(count) == count <= max_reminders

\* the condition of the while loop (line 184)
LoopCondition(count) == count < max_reminders

\* completeness test that accepts any checked box
AllChecked_some(sel, meds) == Len(sel) > 0

\* the completeness test of on_taken (line 117)
AllChecked(sel, meds) == Len(sel) = Len(meds)

\* what running a player (paplay, aplay) can come to: the program is not
\* installed (FileNotFoundError), it plays, or it exits with an error, which
\* check=False ignores
Players == {"missing", "plays", "fails"}

\* play_alarm_sound: the first existing sound file is handed to paplay, or
\* to aplay when paplay is missing, and the function returns whatever the
\* player's exit status is; when both players are missing every candidate is
\* skipped and the terminal bell is rung.  "silent": a player ran and failed.
RECURSIVE play_alarm_sound(_, _, _, _)
play_alarm_sound(i, existing, paplay, aplay) ==
    IF i > 4 THEN "bell"
    ELSE IF i \in existing
         THEN IF paplay # "missing"
              THEN (IF paplay = "plays" THEN "paplay" ELSE "silent")
              ELSE IF aplay # "missing"
              THEN (IF aplay = "plays" THEN "aplay" ELSE "silent")
              ELSE play_alarm_sound(i + 1, existing, paplay, aplay)
         ELSE play_alarm_sound(i + 1, existing, paplay, aplay)

\* selected of on_taken: the medicines whose box is checked, in order
RECURSIVE selected(_, _, _)
selected(meds, checked, i) ==
    IF i > Len(meds) THEN <<>>
    ELSE (IF i \in checked THEN <<meds[i]>> ELSE <<>>) \o selected(meds, checked, i + 1)

\* ------------------------------------------------------------------------
\* Initial states
\* ------------------------------------------------------------------------
\* Logs a first run can find on disk: nothing, a partial or a complete entry
\* for a slot of day 1, an entry without medicines.
InitLogs ==
    LET full(s) == Entry(medicines(s), 1, 0)
        part    == Entry(SubSeq(medicines("morning"), 1, 2), 1, 0)
        none    == Entry(<<>>, 1, 0)
    IN  { EmptyLog,
          1 :> ("morning" :> part),
          1 :> ("morning" :> full("morning")),
          1 :> ("afternoon" :> full("afternoon")),
          1 :> ("afternoon" :> none),
          1 :> ("morning" :> part @@ "afternoon" :> none),
          1 :> ("morning" :> full("morning") @@ "afternoon" :> full("afternoon")) }

InitFiles == {FileAbsent, FileCorrupt} \cup {FileOk(l) : l \in InitLogs}

Terminal == {"satisfied", "stopped", "confirmed", "exhausted", "aborted", "killed"}

InitProc ==
    /\ reminder_type \in [Procs -> Slots]
    /\ reminder_count = [p \in Procs |-> 0]
    /\ wait_time = [p \in Procs |-> 0]
    /\ med_vars = [p \in Procs |-> {}]
    /\ completed = [p \in Procs |-> FALSE]
    /\ log = [p \in Procs |-> EmptyLog]
    /\ today_key = [p \in Procs |-> 0]
    /\ overwritten = [p \in Procs |-> FileAbsent]
    /\ taken = [p \in Procs |-> "none"]
    /\ notification = [p \in Procs |-> NoNotification]
    /\ alarm = [p \in Procs |-> "none"]
    /\ warned = [p \in Procs |-> FALSE]
    /\ rounds = [p \in Procs |-> 0]
    /\ day_changed = [p \in Procs |-> FALSE]
    /\ rollover_round = [p \in Procs |-> FALSE]
    /\ writes = [p \in Procs |-> 0]

\* One invocation of the script; nobody else starts it a second time.
Init ==
    /\ now = 1
    /\ log_file \in InitFiles
    /\ pc = [p \in Procs |-> IF p = "p1" THEN "start" ELSE "absent"]
    /\ InitProc
    /\ reminder_type["p2"] = "morning"

\* ------------------------------------------------------------------------
\* run_reminder_cycle
\* ------------------------------------------------------------------------
\* already_taken_today that keeps the answer of the first read
CheckNow_cached(p) ==
    LET r == load_log(log_file)
    IN  IF taken[p] # "none" THEN taken[p]
        ELSE IF r.raised THEN "error"
        ELSE IF already_taken_today(r.value, get_today_key, reminder_type[p])
             THEN "true" ELSE "false"

\* Result of self.already_taken_today() on the file as it is now.
CheckNow(p) ==
    LET r == load_log(log_file)
    IN  IF r.raised THEN "error"
        ELSE IF already_taken_today(r.value, get_today_key, reminder_type[p])
             THEN "true" ELSE "false"

\* lines 178-182: the check before the loop
check_before_loop(p) ==
    /\ pc[p] = "start"
    /\ taken' = [taken EXCEPT ![p] = CheckNow(p)]
    /\ pc' = [pc EXCEPT ![p] =
                 CASE CheckNow(p) = "error" -> "aborted"
                   [] CheckNow(p) = "true"  -> "satisfied"
                   [] OTHER                 -> "loop"]
    /\ UNCHANGED <<now, log_file, reminder_type, reminder_count, wait_time,
                   med_vars, completed, log, today_key, overwritten,
                   notification, alarm, warned, rounds, day_changed,
                   rollover_round, writes>>

\* lines 184-190: the loop condition, then the check inside the loop
check_in_loop(p) ==
    /\ pc[p] = "loop"
    /\ IF LoopCondition(reminder_count[p])
       THEN /\ taken' = [taken EXCEPT ![p] = CheckNow(p)]
            /\ pc' = [pc EXCEPT ![p] =
                         CASE CheckNow(p) = "error" -> "aborted"
                           [] CheckNow(p) = "true"  -> "stopped"
                           [] OTHER                 -> "notify"]
            /\ rounds' = [rounds EXCEPT ![p] =
                            IF CheckNow(p) = "false" THEN @ + 1 ELSE @]
            /\ rollover_round' = [rollover_round EXCEPT ![p] =
                            IF CheckNow(p) = "false" THEN day_changed[p] ELSE @]
            /\ day_changed' = [day_changed EXCEPT ![p] =
                            IF CheckNow(p) = "false" THEN FALSE ELSE @]
            /\ notification' = [notification EXCEPT ![p] = NoNotification]
            /\ alarm' = [alarm EXCEPT ![p] = "none"]
       ELSE /\ pc' = [pc EXCEPT ![p] = "exhausted"]
            /\ UNCHANGED <<taken, rounds, day_changed, rollover_round,
                           notification, alarm>>
    /\ UNCHANGED <<now, log_file, reminder_type, reminder_count, wait_time,
                   med_vars, completed, log, today_key, overwritten, warned,
                   writes>>

\* lines 65-78 called from lines 193-200: notify-send, or the console when
\* notify-send is missing or fails
show_desktop_notification(p) ==
    /\ pc[p] = "notify"
    /\ \E delivered \in BOOLEAN :
          notification' = [notification EXCEPT ![p] =
              [urgency |-> Urgency(reminder_count[p]),
               via |-> IF delivered THEN "desktop" ELSE "console"]]
    /\ pc' = [pc EXCEPT ![p] =
                 IF PlaysSound(reminder_count[p]) THEN "sound" ELSE "dialog"]
    /\ rollover_round' = [rollover_round EXCEPT ![p] = FALSE]
    /\ UNCHANGED <<now, log_file, reminder_type, reminder_count, wait_time,
                   med_vars, completed, log, today_key, overwritten, taken,
                   alarm, warned, rounds, day_changed, writes>>

\* lines 80-106 called from lines 197 and 200
play_alarm(p) ==
    /\ pc[p] = "sound"
    /\ \E existing \in SUBSET sounds, paplay \in Players, aplay \in Players :
          alarm' = [alarm EXCEPT ![p] = play_alarm_sound(1, existing, paplay, aplay)]
    /\ pc' = [pc EXCEPT ![p] = "dialog"]
    /\ UNCHANGED <<now, log_file, reminder_type, reminder_count, wait_time,
                   med_vars, completed, log, today_key, overwritten, taken,
                   notification, warned, rounds, day_changed, rollover_round,
                   writes>>

\* lines 108-170: the window is built with every box unchecked; tk.Tk() is
\* outside the try block, so without a display the TclError is not caught
show_gui_reminder(p) ==
    /\ pc[p] = "dialog"
    /\ \E display \in BOOLEAN :
          pc' = [pc EXCEPT ![p] = IF display THEN "mainloop" ELSE "aborted"]
    /\ med_vars' = [med_vars EXCEPT ![p] = {}]
    /\ completed' = [completed EXCEPT ![p] = FALSE]
    /\ warned' = [warned EXCEPT ![p] = FALSE]
    /\ UNCHANGED <<now, log_file, reminder_type, reminder_count, wait_time,
                   log, today_key, overwritten, taken, notification, alarm,
                   rounds, day_changed, rollover_round, writes>>

\* the user checks or unchecks box i (lines 151-156)
toggle(p) ==
    /\ pc[p] = "mainloop"
    /\ \E i \in 1..Len(medicines(reminder_type[p])) :
          med_vars' = [med_vars EXCEPT ![p] =
                          IF i \in @ THEN @ \ {i} ELSE @ \cup {i}]
    /\ warned' = [warned EXCEPT ![p] = FALSE]
    /\ UNCHANGED <<now, log_file, reminder_type, pc, reminder_count,
                   wait_time, completed, log, today_key, overwritten, taken,
                   notification, alarm, rounds, day_changed, rollover_round,
                   writes>>

\* lines 111-123 up to the load of save_log (lines 43-53): with every box
\* checked the new log is built from a fresh load; a load error is raised
\* inside the Tk callback, which Tk reports, and the window stays open
on_taken(p) ==
    LET meds == medicines(reminder_type[p])
        sel  == selected(meds, med_vars[p], 1)
        r    == load_log(log_file)
    IN  /\ pc[p] = "mainloop"
        /\ IF AllChecked(sel, meds)
           THEN IF r.raised
                THEN UNCHANGED <<pc, log, today_key, warned>>
                ELSE /\ log' = [log EXCEPT ![p] =
                                  PutEntry(r.value, get_today_key, reminder_type[p],
                                           Entry(sel, now, reminder_count[p]))]
                     /\ today_key' = [today_key EXCEPT ![p] = get_today_key]
                     /\ pc' = [pc EXCEPT ![p] = "save_open"]
                     /\ UNCHANGED warned
           ELSE /\ warned' = [warned EXCEPT ![p] = TRUE]
                /\ UNCHANGED <<pc, log, today_key>>
        /\ UNCHANGED <<now, log_file, reminder_type, reminder_count,
                       wait_time, med_vars, completed, overwritten, taken,
                       notification, alarm, rounds, day_changed,
                       rollover_round, writes>>

\* line 55: open(self.log_file, 'w') empties the file
save_log_open(p) ==
    /\ pc[p] = "save_open"
    /\ overwritten' = [overwritten EXCEPT ![p] = log_file]
    /\ log_file' = FileTruncated
    /\ pc' = [pc EXCEPT ![p] = "save_dump"]
    /\ UNCHANGED <<now, reminder_type, reminder_count, wait_time, med_vars,
                   completed, log, today_key, taken, notification, alarm,
                   warned, rounds, day_changed, rollover_round, writes>>

\* line 56: json.dump writes the whole log and the file is closed
save_log_dump(p) ==
    /\ pc[p] = "save_dump"
    /\ log_file' = FileOk(log[p])
    /\ writes' = [writes EXCEPT ![p] = @ + 1]
    /\ pc' = [pc EXCEPT ![p] = "success_box"]
    /\ UNCHANGED <<now, reminder_type, reminder_count, wait_time, med_vars,
                   completed, log, today_key, overwritten, taken,
                   notification, alarm, warned, rounds, day_changed,
                   rollover_round>>

\* the "Success" box acknowledged with the window left open
on_taken_done_keeps_window(p) ==
    /\ pc[p] = "success_box"
    /\ completed' = [completed EXCEPT ![p] = TRUE]
    /\ pc' = [pc EXCEPT ![p] = "mainloop"]
    /\ UNCHANGED <<now, log_file, reminder_type, reminder_count, wait_time,
                   med_vars, log, today_key, overwritten, taken, notification,
                   alarm, warned, rounds, day_changed, rollover_round, writes>>

\* lines 119-121, 173 and 203-205: the "Success" box is acknowledged, the
\* window is destroyed, show_gui_reminder returns True and the cycle returns
on_taken_done(p) ==
    /\ pc[p] = "success_box"
    /\ completed' = [completed EXCEPT ![p] = TRUE]
    /\ pc' = [pc EXCEPT ![p] = "confirmed"]
    /\ UNCHANGED <<now, log_file, reminder_type, reminder_count, wait_time,
                   med_vars, log, today_key, overwritten, taken, notification,
                   alarm, warned, rounds, day_changed, rollover_round, writes>>

\* the same return path with the index started again after a date change
gui_returns_false_daily(p) ==
    /\ pc[p] = "mainloop"
    /\ reminder_count' = [reminder_count EXCEPT ![p] =
                             IF day_changed[p] THEN 1 ELSE @ + 1]
    /\ wait_time' = [wait_time EXCEPT ![p] =
                        WaitTime(IF day_changed[p] THEN 1 ELSE reminder_count[p] + 1)]
    /\ med_vars' = [med_vars EXCEPT ![p] = {}]
    /\ warned' = [warned EXCEPT ![p] = FALSE]
    /\ notification' = [notification EXCEPT ![p] = NoNotification]
    /\ alarm' = [alarm EXCEPT ![p] = "none"]
    /\ pc' = [pc EXCEPT ![p] = "waiting"]
    /\ UNCHANGED <<now, log_file, reminder_type, completed, log, today_key,
                   overwritten, taken, rounds, day_changed, rollover_round,
                   writes>>

\* lines 173-175 and 207-218: show_gui_reminder returns completed[0], which
\* is False; the count is incremented, then the wait is chosen and slept
gui_returns_false(p) ==
    /\ pc[p] = "mainloop"
    /\ reminder_count' = [reminder_count EXCEPT ![p] = @ + 1]
    /\ wait_time' = [wait_time EXCEPT ![p] = WaitTime(reminder_count[p] + 1)]
    /\ med_vars' = [med_vars EXCEPT ![p] = {}]
    /\ warned' = [warned EXCEPT ![p] = FALSE]
    /\ notification' = [notification EXCEPT ![p] = NoNotification]
    /\ alarm' = [alarm EXCEPT ![p] = "none"]
    /\ pc' = [pc EXCEPT ![p] = "waiting"]
    /\ UNCHANGED <<now, log_file, reminder_type, completed, log, today_key,
                   overwritten, taken, rounds, day_changed, rollover_round,
                   writes>>

\* lines 125-126 and 172-173: the Snooze button destroys the window,
\* mainloop ends and completed[0], still False, is returned
on_snooze(p) ==
    /\ pc[p] = "mainloop"
    /\ completed[p] = FALSE
    /\ gui_returns_false(p)

\* closing the window that lets the TclError out of show_gui_reminder
close_window_raises(p) ==
    /\ pc[p] = "mainloop"
    /\ pc' = [pc EXCEPT ![p] = "aborted"]
    /\ UNCHANGED <<now, log_file, reminder_type, reminder_count, wait_time,
                   med_vars, completed, log, today_key, overwritten, taken,
                   notification, alarm, warned, rounds, day_changed,
                   rollover_round, writes>>

\* lines 171-175: the window is closed or destroyed from outside: mainloop
\* ends and completed[0] is returned, or mainloop raises TclError and False
\* is returned
close_window(p) ==
    /\ pc[p] = "mainloop"
    /\ \E tcl_error \in BOOLEAN : tcl_error \/ completed[p] = FALSE
    /\ gui_returns_false(p)

\* line 218: time.sleep(wait_time) is over, back to the loop condition
wake(p) ==
    /\ pc[p] = "waiting"
    /\ pc' = [pc EXCEPT ![p] = "loop"]
    /\ UNCHANGED <<now, log_file, reminder_type, reminder_count, wait_time,
                   med_vars, completed, log, today_key, overwritten, taken,
                   notification, alarm, warned, rounds, day_changed,
                   rollover_round, writes>>

\* the process is killed (or the machine goes down) wherever it is
kill(p) ==
    /\ pc[p] \notin Terminal \cup {"absent"}
    /\ pc' = [pc EXCEPT ![p] = "killed"]
    /\ UNCHANGED <<now, log_file, reminder_type, reminder_count, wait_time,
                   med_vars, completed, log, today_key, overwritten, taken,
                   notification, alarm, warned, rounds, day_changed,
                   rollover_round, writes>>

\* Another writer of the same file (a run of this script for slot s on
\* another terminal, seen as a whole) records a full confirmation for today.
\* It stays out while a process of the model is inside save_log: the log is
\* owned by one process for the duration of a read-modify-write.
InSaveLog(p) == pc[p] \in {"save_open", "save_dump"}

other_writer ==
    /\ \A p \in Procs : ~InSaveLog(p)
    /\ ~load_log(log_file).raised
    /\ \E s \in Slots :
          log_file' = FileOk(PutEntry(load_log(log_file).value, get_today_key, s,
                                      Entry(medicines(s), now, 0)))
    /\ UNCHANGED <<now, reminder_type, pc, reminder_count, wait_time,
                   med_vars, completed, log, today_key, overwritten, taken,
                   notification, alarm, warned, rounds, day_changed,
                   rollover_round, writes>>

\* local midnight: datetime.now() moves to the next date, under every cycle
\* that has begun a round and is still running; a cycle that has ended
\* keeps what it held
midnight ==
    /\ now < MaxDay
    /\ now' = now + 1
    /\ day_changed' = [p \in Procs |->
                         IF pc[p] \in Terminal THEN day_changed[p]
                                               ELSE rounds[p] > 0]
    /\ UNCHANGED <<log_file, reminder_type, pc, reminder_count, wait_time,
                   med_vars, completed, log, today_key, overwritten, taken,
                   notification, alarm, warned, rounds, rollover_round, writes>>

\* the last line the process prints: the status line of the return it took,
\* or the traceback of the exception nobody caught
status_line(p) ==
    CASE pc[p] = "satisfied" -> "Medications already taken today!"
      [] pc[p] = "stopped"   -> "Medications were taken - stopping reminders!"
      [] pc[p] = "confirmed" -> "Medications taken successfully!"
      [] pc[p] = "exhausted" -> "Maximum reminders reached. Please take your medication!"
      [] pc[p] = "aborted"   -> "Traceback (most recent call last)"
      [] OTHER               -> ""

\* the exit code of an ended process: 0 after run_reminder_cycle returned,
\* 1 after an uncaught exception
exit_code(p) == IF pc[p] = "aborted" THEN 1 ELSE 0

Next ==
    \/ \E p \in Procs : check_before_loop(p)
    \/ \E p \in Procs : check_in_loop(p)
    \/ \E p \in Procs : show_desktop_notification(p)
    \/ \E p \in Procs : play_alarm(p)
    \/ \E p \in Procs : show_gui_reminder(p)
    \/ \E p \in Procs : toggle(p)
    \/ \E p \in Procs : on_taken(p)
    \/ \E p \in Procs : save_log_open(p)
    \/ \E p \in Procs : save_log_dump(p)
    \/ \E p \in Procs : on_taken_done(p)
    \/ \E p \in Procs : on_snooze(p)
    \/ \E p \in Procs : close_window(p)
    \/ \E p \in Procs : wake(p)
    \/ \E p \in Procs : kill(p)
    \/ other_writer
    \/ midnight

Spec == Init /\ [][Next]_vars

\* Two invocations of the script at the same time on the same file: a
\* morning or an afternoon cycle next to an afternoon cycle.
InitConc ==
    /\ now = 1
    /\ log_file = FileAbsent
    /\ pc = [p \in Procs |-> "start"]
    /\ InitProc
    /\ reminder_type["p2"] = "afternoon"

\* The steps of the two processes; nobody is killed, the day does not end
\* and nobody else writes the file.
NextConc ==
    \/ \E p \in Procs : check_before_loop(p)
    \/ \E p \in Procs : check_in_loop(p)
    \/ \E p \in Procs : show_desktop_notification(p)
    \/ \E p \in Procs : play_alarm(p)
    \/ \E p \in Procs : show_gui_reminder(p)
    \/ \E p \in Procs : toggle(p)
    \/ \E p \in Procs : on_taken(p)
    \/ \E p \in Procs : save_log_open(p)
    \/ \E p \in Procs : save_log_dump(p)
    \/ \E p \in Procs : on_taken_done(p)
    \/ \E p \in Procs : on_snooze(p)
    \/ \E p \in Procs : close_window(p)
    \/ \E p \in Procs : wake(p)

SpecConc == InitConc /\ [][NextConc]_vars

\* A step the interpreter takes by itself in the cycle of p.
CycleStep(p) ==
    \/ check_before_loop(p)
    \/ check_in_loop(p)
    \/ show_desktop_notification(p)
    \/ play_alarm(p)
    \/ show_gui_reminder(p)
    \/ save_log_open(p)
    \/ save_log_dump(p)

\* The process is scheduled, every dialog and every message box is
\* eventually answered or closed (line 171 blocks until then), and every
\* sleep of line 218 elapses.
Fairness ==
    \A p \in Procs :
        /\ WF_vars(CycleStep(p))
        /\ WF_vars(on_snooze(p) \/ close_window(p))
        /\ WF_vars(on_taken_done(p))
        /\ WF_vars(wake(p))

\* One invocation of the script that is left alone (not killed, no date
\* change, no other writer) with a user who answers.
SpecLive == Init /\ [][NextConc]_vars /\ Fairness

TypeOK ==
    /\ now \in Days
    /\ log_file.status \in {"absent", "corrupt", "truncated", "ok"}
    /\ \A p \in Procs : reminder_count[p] \in 0..max_reminders

\* ------------------------------------------------------------------------
\* Properties
\* ------------------------------------------------------------------------
\* The persisted log holds an entry for (D, S) with as many confirmed items
\* as S requires.
HasCompleteEntry(f, D, S) ==
    /\ f.status = "ok"
    /\ \E d \in DOMAIN f.log : d = D /\ \E s \in DOMAIN f.log[d] :
          s = S /\ Len(f.log[d][s].medicines) = Len(medicines(S))

\* The entry of (d, s) in a log, as a sequence of zero or one entries.
Lookup(l, d, s) ==
    IF d \in DOMAIN l THEN (IF s \in DOMAIN l[d] THEN <<l[d][s]>> ELSE <<>>) ELSE <<>>

\* Process p evaluates already_taken_today() in this step.
CheckStep(p) ==
    \/ pc[p] = "start" /\ pc'[p] \notin {"start", "killed"}
    \/ pc[p] = "loop" /\ reminder_count[p] < 10 /\ pc'[p] \notin {"loop", "killed"}

\* Everything process p holds.
ProcState(p) ==
    <<pc[p], reminder_count[p], wait_time[p], med_vars[p], completed[p],
      log[p], today_key[p], overwritten[p], taken[p], notification[p],
      alarm[p], warned[p], rounds[p], day_changed[p], rollover_round[p],
      writes[p]>>

\* C1: every completion check returns true if and only if the persisted log
\* holds, for today and the slot of the process, an entry whose number of
\* confirmed items equals the number of items the slot requires; it returns
\* false on a day without an entry and for an entry with fewer items.
C1_CompleteIffFullEntry ==
    [][\A p \in Procs : CheckStep(p) =>
          /\ (taken'[p] = "true") <=> HasCompleteEntry(log_file, now, reminder_type[p])
          /\ (log_file.status \in {"ok", "absent"}
                /\ ~HasCompleteEntry(log_file, now, reminder_type[p]))
               => taken'[p] = "false"]_vars

\* C1 witness: a check inside the loop returned true on the day a full
\* confirmation was recorded.
C1_Witness ==
    /\ pc["p1"] = "stopped"
    /\ taken["p1"] = "true"
    /\ rounds["p1"] > 0
    /\ HasCompleteEntry(log_file, now, reminder_type["p1"])

\* waitSeconds of the escalation table for attempt index i
TableWaitSeconds(i) ==
    IF i = 0 THEN 300
    ELSE IF i < 3 THEN 300
    ELSE IF i < 6 THEN 180
    ELSE 60

\* C2 as stated: the wait after attempt i was snoozed is the waitSeconds of
\* the escalation table for the same index i (300, 300, 300, 180 after the
\* attempts 0, 1, 2, 3).
C2_WaitOfSameIndex ==
    \A p \in Procs : pc[p] = "waiting" =>
        wait_time[p] = TableWaitSeconds(reminder_count[p] - 1)

\* C2 amended: the wait after attempt i was snoozed is the waitSeconds of
\* the escalation table for index i + 1: 300 for i < 2, 180 for 2 <= i < 5,
\* 60 for i >= 5 (300, 300, 180, 180 after the attempts 0, 1, 2, 3).
C2_WaitOfNextIndex ==
    \A p \in Procs : pc[p] = "waiting" =>
        LET i == reminder_count[p] - 1
        IN  /\ i \in 0..9
            /\ wait_time[p] = TableWaitSeconds(i + 1)
            /\ wait_time[p] = (IF i < 2 THEN 300 ELSE IF i < 5 THEN 180 ELSE 60)

\* C2 witness: attempt 2 was snoozed and the process sleeps 180 seconds.
C2_Witness ==
    /\ pc["p1"] = "waiting"
    /\ reminder_count["p1"] = 3
    /\ wait_time["p1"] = 180

\* C3: the alert of attempt i has urgency normal when i < 3 and critical
\* when i >= 3, the alarm is played if and only if i >= 1; the notification
\* comes before the sound and both come before the dialog of the attempt.
C3_AlertOfAttempt ==
    \A p \in Procs :
        LET i == reminder_count[p]
        IN  /\ pc[p] = "notify" =>
                  notification[p].urgency = "none" /\ alarm[p] = "none"
            /\ pc[p] = "sound" =>
                  /\ notification[p].urgency = (IF i < 3 THEN "normal" ELSE "critical")
                  /\ alarm[p] = "none"
                  /\ i >= 1
            /\ pc[p] \in {"dialog", "mainloop"} =>
                  /\ i \in 0..9
                  /\ notification[p].urgency = (IF i < 3 THEN "normal" ELSE "critical")
                  /\ (alarm[p] # "none") <=> (i >= 1)

\* C3 witness: the dialog of attempt 3 is open after a critical notification
\* and the alarm.
C3_Witness ==
    /\ pc["p1"] = "mainloop"
    /\ reminder_count["p1"] = 3
    /\ notification["p1"].urgency = "critical"
    /\ alarm["p1"] # "none"

\* C4: a cycle has at most max_reminders alert rounds; once the dialog was
\* snoozed max_reminders times no notification, sound or dialog follows, the
\* only state the cycle can move to is Stopped (exhausted), reached with
\* exactly max_reminders snoozes, and nothing happens after it.
C4_StopsAfterMaxAttempts ==
    /\ [](\A p \in Procs :
            /\ rounds[p] <= 10
            /\ pc[p] = "exhausted" => reminder_count[p] = 10 /\ rounds[p] = 10
            /\ reminder_count[p] >= 10 =>
                  /\ pc[p] \in {"waiting", "loop", "exhausted", "killed"}
                  /\ notification[p] = NoNotification
                  /\ alarm[p] = "none")
    /\ [][\A p \in Procs :
            /\ reminder_count[p] >= 10 =>
                  /\ rounds'[p] = rounds[p]
                  /\ reminder_count'[p] = reminder_count[p]
                  /\ pc[p] = "loop" => pc'[p] \in {"loop", "exhausted", "killed"}
            /\ pc[p] = "exhausted" => ProcState(p)' = ProcState(p)]_vars

\* C4 witness: the cycle is exhausted after ten snoozed rounds.
C4_Witness ==
    /\ pc["p1"] = "exhausted"
    /\ reminder_count["p1"] = 10
    /\ rounds["p1"] = 10
    /\ taken["p1"] = "false"

\* The entry a record of process p puts into the log.
RecordedEntry(l, p) == Lookup(l, today_key[p], reminder_type[p])

\* C5: pressing Taken All with fewer than all boxes checked writes nothing
\* and does not confirm: the dialog stays open with the warning shown; every
\* entry the program builds and persists holds the full item list of the slot.
C5_PartialNeverRecorded ==
    /\ [](\A p \in Procs :
            (InSaveLog(p) \/ pc[p] \in {"success_box", "confirmed"}) =>
                /\ Len(RecordedEntry(log[p], p)) = 1
                /\ RecordedEntry(log[p], p)[1].medicines = medicines(reminder_type[p]))
    /\ [][\A p \in Procs :
            /\ (on_taken(p)
                  /\ Cardinality(med_vars[p]) < Len(medicines(reminder_type[p]))) =>
                    /\ warned'[p]
                    /\ pc'[p] = "mainloop"
                    /\ ~completed'[p]
                    /\ log_file' = log_file
                    /\ writes' = writes
            /\ (pc[p] = "save_dump" /\ pc'[p] = "success_box") =>
                    /\ log_file'.status = "ok"
                    /\ Len(RecordedEntry(log_file'.log, p)) = 1
                    /\ RecordedEntry(log_file'.log, p)[1].medicines
                          = medicines(reminder_type[p])]_vars

\* C5 witness: Taken All was pressed with two of the three morning boxes
\* checked; the warning is up and the dialog is still open.
C5_Witness ==
    /\ pc["p1"] = "mainloop"
    /\ warned["p1"]
    /\ reminder_type["p1"] = "morning"
    /\ Cardinality(med_vars["p1"]) = 2
    /\ writes["p1"] = 0

\* C6: a record for (D, S) made when the file already holds an entry for
\* (D, S) leaves exactly the new entry under (D, S) and leaves the entry of
\* every other (day, slot) pair as it was in the file before the write.
C6_RecordReplacesOnlyItsEntry ==
    [][\A p \in Procs :
        (/\ pc[p] = "save_dump" /\ pc'[p] = "success_box"
         /\ Len(RecordedEntry(overwritten[p].log, p)) = 1) =>
            /\ log_file'.status = "ok"
            /\ RecordedEntry(log_file'.log, p)
                  = <<Entry(medicines(reminder_type[p]), today_key[p], reminder_count[p])>>
            /\ \A d \in Days, s \in Slots :
                  (d # today_key[p] \/ s # reminder_type[p]) =>
                     Lookup(log_file'.log, d, s) = Lookup(overwritten[p].log, d, s)
            /\ DOMAIN log_file'.log = DOMAIN overwritten[p].log]_vars

\* C6 witness: a record has replaced an older entry of its own (day, slot)
\* in a file that also holds an entry of the other slot.
C6_Witness ==
    /\ pc["p1"] = "success_box"
    /\ Len(RecordedEntry(overwritten["p1"].log, "p1")) = 1
    /\ RecordedEntry(overwritten["p1"].log, "p1") # RecordedEntry(log_file.log, "p1")
    /\ \E s \in Slots : s # reminder_type["p1"]
          /\ Len(Lookup(log_file.log, today_key["p1"], s)) = 1

\* C7: a cycle started while the file holds a complete entry for today and
\* its slot goes straight to Stopped (already-satisfied): no alert round, no
\* notification, no sound, no dialog, no write of the log, and no step after.
C7_SatisfiedAtStart ==
    /\ [](\A p \in Procs : pc[p] = "satisfied" =>
            /\ rounds[p] = 0 /\ reminder_count[p] = 0
            /\ notification[p] = NoNotification /\ alarm[p] = "none"
            /\ writes[p] = 0 /\ today_key[p] = 0 /\ ~completed[p])
    /\ [][\A p \in Procs :
            /\ (CheckStep(p) /\ pc[p] = "start"
                  /\ HasCompleteEntry(log_file, now, reminder_type[p])) =>
                    pc'[p] = "satisfied" /\ log_file' = log_file
            /\ pc[p] = "satisfied" => ProcState(p)' = ProcState(p)]_vars

\* C7 witness: the cycle ended at its first check on a file with a complete
\* entry for today.
C7_Witness ==
    /\ pc["p1"] = "satisfied"
    /\ HasCompleteEntry(log_file, now, reminder_type["p1"])
    /\ log_file.log[now][reminder_type["p1"]].reminder_count = 0

\* C8: an alert round starts only when the file, read at that moment, holds
\* no complete entry for today and the slot; a cycle that wakes below the cap
\* and finds the entry another writer made stops, and delivers nothing more.
C8_FreshReadBeforeRound ==
    /\ [](\A p \in Procs : pc[p] = "stopped" =>
            /\ notification[p] = NoNotification /\ alarm[p] = "none"
            /\ writes[p] = 0)
    /\ [][\A p \in Procs :
            /\ rounds'[p] # rounds[p] =>
                  ~HasCompleteEntry(log_file, now, reminder_type[p])
            /\ (CheckStep(p) /\ pc[p] = "loop"
                  /\ HasCompleteEntry(log_file, now, reminder_type[p])) =>
                    pc'[p] = "stopped" /\ rounds'[p] = rounds[p]
            /\ pc[p] = "stopped" => ProcState(p)' = ProcState(p)]_vars

\* C8 witness: after three snoozed rounds the cycle woke up, found the
\* complete entry of another writer and stopped.
C8_Witness ==
    /\ pc["p1"] = "stopped"
    /\ reminder_count["p1"] = 3
    /\ rounds["p1"] = 3
    /\ writes["p1"] = 0
    /\ HasCompleteEntry(log_file, now, reminder_type["p1"])

\* The file exists but cannot be parsed.
Unparsable(f) == f.status \in {"corrupt", "truncated"}

\* C9 as stated: load returns the empty mapping exactly when no file
\* exists, and fails on a file that cannot be parsed.
C9_EmptyExactlyWhenAbsent ==
    LET r == load_log(log_file)
    IN  /\ (~r.raised /\ r.value = EmptyLog) <=> (log_file.status = "absent")
        /\ Unparsable(log_file) => r.raised

\* C9 amended: load returns the empty mapping when no file exists, and
\* otherwise only when the file itself holds the empty mapping; on a file
\* that cannot be parsed it fails, and the failure reaches the caller: the
\* check ends in an error and the cycle is aborted.
C9_EmptyWhenAbsentErrorWhenCorrupt ==
    /\ [](LET r == load_log(log_file)
          IN  /\ log_file.status = "absent" => ~r.raised /\ r.value = EmptyLog
              /\ Unparsable(log_file) => r.raised
              /\ (~r.raised /\ r.value = EmptyLog) =>
                    \/ log_file.status = "absent"
                    \/ log_file.status = "ok" /\ log_file.log = EmptyLog)
    /\ [][\A p \in Procs : CheckStep(p) =>
            /\ Unparsable(log_file) => taken'[p] = "error" /\ pc'[p] = "aborted"
            /\ log_file.status = "absent" => taken'[p] = "false"]_vars

\* C9 witness: a check has failed on a file that exists and cannot be parsed.
C9_Witness ==
    /\ pc["p1"] = "aborted"
    /\ taken["p1"] = "error"
    /\ log_file.status = "corrupt"

\* C10 as stated: when the process dies during a record, the file can be
\* parsed (it is not cut short or empty) and still holds an entry for every
\* (day, slot) pair it held before the record.
C10_CrashKeepsLog ==
    \A p \in Procs : (pc[p] = "killed" /\ today_key[p] # 0) =>
        /\ ~Unparsable(log_file)
        /\ \A d \in Days, s \in Slots :
              Len(Lookup(overwritten[p].log, d, s)) = 1 =>
                 Len(Lookup(log_file.log, d, s)) = 1

\* C11 as stated: a failed notification or a failed playback never aborts
\* the cycle: the notification has gone to the desktop or to the console,
\* a sound that could not be played has ended in the terminal bell, and the
\* dialog of the same attempt follows with the attempt index unchanged.
C11_AlertFailureFallsBack ==
    /\ [](\A p \in Procs :
            /\ pc[p] \in {"sound", "dialog", "mainloop"} =>
                  notification[p].via \in {"desktop", "console"}
            /\ (pc[p] \in {"dialog", "mainloop"} /\ reminder_count[p] >= 1) =>
                  alarm[p] \in {"paplay", "aplay", "bell"})
    /\ [][\A p \in Procs :
            (pc[p] \in {"notify", "sound"} /\ pc'[p] # pc[p]) =>
                /\ pc'[p] \in {"sound", "dialog", "killed"}
                /\ reminder_count'[p] = reminder_count[p]]_vars

\* The status lines run_reminder_cycle ends with.
FinalStatusLines ==
    { "Medications already taken today!",
      "Medications were taken - stopping reminders!",
      "Medications taken successfully!",
      "Maximum reminders reached. Please take your medication!" }

\* The process has ended by itself (it was not killed).
Ended(p) == pc[p] \in Terminal \ {"killed"}

\* C12 as stated: every end of a cycle is a soft termination, with a final
\* status line and exit code 0, also when the log cannot be parsed.
C12_EveryEndIsSoft ==
    \A p \in Procs : Ended(p) =>
        /\ exit_code(p) = 0
        /\ status_line(p) \in FinalStatusLines

\* Process p has persisted a confirmation and q runs a cycle for the same slot.
ConfirmedBeside(p, q) ==
    /\ p # q
    /\ reminder_type[p] = reminder_type[q]
    /\ writes[p] >= 1

\* C13 as stated: once one of two concurrent cycles of a slot has persisted
\* a complete confirmation, the other delivers no further notification, no
\* sound and no new dialog.
C13_NoAlertAfterConfirmation ==
    [][\A p, q \in Procs : ConfirmedBeside(p, q) =>
          ~(pc[q] \in {"notify", "sound", "dialog"} /\ pc'[q] # pc[q])]_vars

\* C13 amended: once one of two concurrent cycles of a slot has persisted a
\* complete confirmation, the other starts no further alert round and its
\* next completion check ends it; only the round it had begun before (its
\* check had already passed) is still delivered.
C13_NoNewRoundAfterConfirmation ==
    [][\A p, q \in Procs : ConfirmedBeside(p, q) =>
          /\ rounds'[q] = rounds[q]
          /\ CheckStep(q) => pc'[q] \in {"satisfied", "stopped"}]_vars

\* C13 witness: p1 has persisted its confirmation and p2, after a snoozed
\* round of its own, was stopped by its next check.
C13_Witness ==
    /\ ConfirmedBeside("p1", "p2")
    /\ pc["p2"] = "stopped"
    /\ rounds["p2"] >= 1
    /\ HasCompleteEntry(log_file, now, reminder_type["p2"])

\* C14 as stated: the snooze that raises the attempt index to max_reminders
\* is not followed by a wait; a wait happens only while the incremented
\* index is below max_reminders.
C14_NoWaitAfterFinalSnooze ==
    /\ [](\A p \in Procs : pc[p] = "waiting" => reminder_count[p] < 10)
    /\ [][\A p \in Procs :
            (pc[p] = "mainloop" /\ reminder_count'[p] = 10) =>
                pc'[p] = "exhausted"]_vars

\* C15: closing the dialog without confirming does what Snooze does: the
\* log is not written, the attempt index grows by one and the cycle goes on
\* to the wait that follows a snooze.
C15_CloseIsSnooze ==
    [][\A p \in Procs : close_window(p) =>
          /\ on_snooze(p)
          /\ log_file' = log_file
          /\ writes' = writes
          /\ ~completed'[p]
          /\ reminder_count'[p] = reminder_count[p] + 1
          /\ pc'[p] = "waiting"
          /\ wait_time'[p] = (IF reminder_count'[p] < 3 THEN 300
                               ELSE IF reminder_count'[p] < 6 THEN 180 ELSE 60)]_vars

\* C15 witness: the first dialog was left without a confirmation and nothing
\* was written; the cycle sleeps with the index at 1.
C15_Witness ==
    /\ pc["p1"] = "waiting"
    /\ reminder_count["p1"] = 1
    /\ rounds["p1"] = 1
    /\ writes["p1"] = 0
    /\ log_file.status = "absent"

\* C16: the attempt index stays between 0 and max_reminders; it starts at 0,
\* never decreases, grows by exactly one when a dialog ends without a
\* confirmation and at no other step, and an alert round starts only while
\* the index is below max_reminders.
C16_AttemptIndexBounds ==
    /\ [](\A p \in Procs :
            /\ reminder_count[p] \in 0..10
            /\ pc[p] \in {"absent", "start"} => reminder_count[p] = 0)
    /\ [][\A p \in Procs :
            /\ reminder_count'[p] \in {reminder_count[p], reminder_count[p] + 1}
            /\ (reminder_count'[p] # reminder_count[p])
                  <=> (pc[p] = "mainloop" /\ pc'[p] = "waiting")
            /\ rounds'[p] # rounds[p] =>
                  /\ reminder_count[p] < 10
                  /\ rounds[p] = reminder_count[p]
                  /\ rounds'[p] = rounds[p] + 1]_vars

\* C16 witness: the dialog of the last permitted round (index 9) is open.
C16_Witness ==
    /\ pc["p1"] = "mainloop"
    /\ reminder_count["p1"] = 9
    /\ rounds["p1"] = 10

\* C17 as stated: the attempt index counts the rounds of the current day:
\* the first round a running cycle begins after the date has changed is
\* checked against the new day's log and begins with the index at 0.
C17_IndexRestartsOnNewDay ==
    \A p \in Procs : (pc[p] = "notify" /\ rollover_round[p]) =>
        /\ taken[p] = "false"
        /\ reminder_count[p] = 0

\* C17 amended: the attempt index counts the rounds of the whole cycle and
\* is not reset when the date changes: the checks after midnight are made
\* against the new day's log, the first round after it begins with the index
\* the cycle had reached, and a confirmation records that index.
C17_IndexContinuesOverMidnight ==
    /\ [](\A p \in Procs :
            /\ (pc[p] = "notify" /\ rollover_round[p]) =>
                  /\ taken[p] = "false"
                  /\ reminder_count[p] >= 1
                  /\ reminder_count[p] = rounds[p] - 1
            /\ InSaveLog(p) =>
                  /\ Len(RecordedEntry(log[p], p)) = 1
                  /\ RecordedEntry(log[p], p)[1].reminder_count = rounds[p] - 1)
    /\ [][\A p \in Procs : (CheckStep(p) /\ day_changed[p]) =>
            /\ (taken'[p] = "true")
                  <=> HasCompleteEntry(log_file, now, reminder_type[p])
            /\ reminder_count'[p] = reminder_count[p]]_vars

\* C17 witness: three rounds were snoozed, the date changed, and the fourth
\* round has begun on the new day with the index at 3.
C17_Witness ==
    /\ pc["p1"] = "notify"
    /\ rollover_round["p1"]
    /\ now = 2
    /\ reminder_count["p1"] = 3
    /\ rounds["p1"] = 4

\* Both processes have finished a record, p1 for the morning and p2 for the
\* afternoon of the same day.
BothRecorded ==
    /\ reminder_type["p1"] = "morning"
    /\ reminder_type["p2"] = "afternoon"
    /\ today_key["p1"] = today_key["p2"]
    /\ \A p \in Procs : writes[p] >= 1

\* Process q begins a record (on_taken passes to save_log) in this step.
RecordBegins(q) == pc[q] = "mainloop" /\ pc'[q] = "save_open"

\* C18 as stated: when a morning cycle and an afternoon cycle run
\* concurrently on one log file and both record a confirmation on the same
\* day, the persisted log holds both entries after both records, under every
\* interleaving of their load and save steps.
C18_BothEntriesKept ==
    BothRecorded =>
        /\ HasCompleteEntry(log_file, now, "morning")
        /\ HasCompleteEntry(log_file, now, "afternoon")

\* C18 amended: the log holds both entries when the two records do not
\* overlap: a record that begins after the other has been written loads the
\* other's entry and writes it back beside its own, and the file then holds
\* both; a record that loaded the file before the other was written
\* replaces the file with its own copy.
C18_BothEntriesKeptWhenNotOverlapping ==
    /\ [][\A p, q \in Procs :
            (RecordBegins(q) /\ writes[p] >= 1
               /\ reminder_type[p] # reminder_type[q]) =>
                /\ Lookup(log'[q], now, reminder_type[p])
                     = Lookup(log_file.log, now, reminder_type[p])
                /\ Len(Lookup(log'[q], now, reminder_type[p])) = 1
                /\ Len(Lookup(log'[q], now, reminder_type[q])) = 1]_vars
    /\ [](BothRecorded =>
            /\ log_file.status = "ok"
            /\ \E q \in Procs : log_file.log = log[q]
            /\ (\E p, q \in Procs :
                   /\ p # q
                   /\ Len(Lookup(log[q], now, reminder_type[p])) = 1)
                => /\ HasCompleteEntry(log_file, now, "morning")
                   /\ HasCompleteEntry(log_file, now, "afternoon"))

\* C18 witness: the afternoon record began after the morning record was
\* written, and the file holds both entries.
C18_Witness ==
    /\ BothRecorded
    /\ Len(Lookup(log["p2"], now, "morning")) = 1
    /\ HasCompleteEntry(log_file, now, "morning")
    /\ HasCompleteEntry(log_file, now, "afternoon")

\* The three ways the cycle stops: the entry was there (lines 178-180 and
\* 186-188), the user confirmed (lines 203-205), the attempts ran out
\* (line 220).
StoppedStates == {"satisfied", "stopped", "confirmed", "exhausted"}

\* C19 as stated: when every dialog is eventually answered or closed and
\* every wait elapses, every cycle eventually reaches one of the states
\* stopped (already satisfied), stopped (confirmed) or stopped (exhausted)
\* and stays there, doing nothing more.
C19_EveryCycleStops ==
    \A p \in Procs : <>[](pc[p] \in StoppedStates \cup {"absent"})

\* Process p takes a step that changes the persisted log.
WritesFile(p) == ProcState(p)' # ProcState(p) /\ log_file' # log_file

\* C20: within one cycle the persisted log is changed only by the two steps
\* of the record (the open and the dump of save_log) that follow a
\* confirmation with every box checked, and the record is made at most once
\* per cycle; checks, alerts, a snoozed or closed dialog, waits and the end
\* after the last attempt leave the persisted log as it is.
C20_WrittenOnlyWhenRecording ==
    /\ [][\A p \in Procs : WritesFile(p) =>
            /\ InSaveLog(p)
            /\ AllChecked(selected(medicines(reminder_type[p]), med_vars[p], 1),
                          medicines(reminder_type[p]))
            /\ writes[p] = 0]_vars
    /\ [][\A p \in Procs : writes'[p] # writes[p] =>
            /\ pc[p] = "save_dump"
            /\ log_file' = FileOk(log[p])]_vars
    /\ [](\A p \in Procs : writes[p] <= 1)

\* C20 witness: a dialog was snoozed, a later one was confirmed, and the one
\* record of the cycle is in the file.
C20_Witness ==
    /\ pc["p1"] = "confirmed"
    /\ reminder_count["p1"] >= 1
    /\ writes["p1"] = 1
    /\ log_file = FileOk(log["p1"])

====
